---- MODULE Spec2Model ----
(***************************************************************************)
(* Bitcoin address clustering: the graph builders (v0.1, v0.2, v1.0) and   *)
(* the analyzers (v0.1, v0.2, clustering v1.0) of the repository, run side *)
(* by side on one transaction log.  Every builder reads the same lines,    *)
(* writes its own graph file, and the analyzer of the same version reads   *)
(* that file and writes its CSV.                                           *)
(***************************************************************************)
EXTENDS Integers, Sequences, FiniteSets, TLC

\* ------------------------------------------------------------------ bounds
\* Largest address written in a line (addresses are 0..MaxAddr).
MaxAddr == 2
\* Most input entries of one transaction line.
MaxIn == 3
\* Most output entries of one transaction line.
MaxOut == 1
\* Most lines of the transaction log.
MaxLines == 2
\* Largest <num_addresses> argument given to clustering.
MaxForced == 4

\* ------------------------------------------------------------- characters
\* Characters are ASCII codes.  A line read by getline(3) ends with '\n'.
CharNL == 10
\* '0': the digits are Char0 .. Char0 + 9.
Char0 == 48
\* A character that is neither a digit nor white space ('x').
CharX == 120
\* '-', the sign atoi and std::stoi accept before the digits.
CharMinus == 45

IsDigit(c) == c >= Char0 /\ c <= Char0 + 9

RECURSIVE SkipSpace(_)
SkipSpace(s) ==
    IF s # <<>> /\ Head(s) = CharNL THEN SkipSpace(Tail(s)) ELSE s

RECURSIVE Digits(_, _)
Digits(s, acc) ==
    IF s = <<>> \/ ~IsDigit(Head(s)) THEN acc
    ELSE Digits(Tail(s), acc * 10 + (Head(s) - Char0))

\* atoi(3): skips white space, takes a sign, converts the leading digits,
\* and yields 0 when there is none; it reports no error.
atoi(s) ==
    LET t == SkipSpace(s)
    IN IF t # <<>> /\ Head(t) = CharMinus THEN 0 - Digits(Tail(t), 0)
       ELSE Digits(t, 0)

\* std::stoi converts as atoi does, and throws std::invalid_argument when no
\* conversion can be performed.
stoi_throws(s) ==
    LET t == SkipSpace(s)
        u == IF t # <<>> /\ Head(t) = CharMinus THEN Tail(t) ELSE t
    IN u = <<>> \/ ~IsDigit(Head(u))

stoi(s) ==
    LET t == SkipSpace(s)
    IN IF t # <<>> /\ Head(t) = CharMinus THEN 0 - Digits(Tail(t), 0)
       ELSE Digits(t, 0)

\* ------------------------------------------------------------------ lines
SeqsUpTo(S, n) == UNION {[1..k -> S] : k \in 0..n}

\* The address field of an entry: a number, or text that is no number.
AddrTokens == {<<Char0 + d>> : d \in 0..MaxAddr} \cup {<<CharX>>}

\* A line "<metadata>:<inputs>:<outputs>\n".  Each list holds the address
\* field of its entries; the other comma-separated fields are not read.
Lines == [inputs : SeqsUpTo(AddrTokens, MaxIn),
          outputs : SeqsUpTo(AddrTokens, MaxOut)]

\* Whether an address field is the decimal text of an integer.
IsNumber(tok) ==
    LET u == IF tok # <<>> /\ Head(tok) = CharMinus THEN Tail(tok) ELSE tok
    IN u # <<>> /\ \A i \in DOMAIN u : IsDigit(u[i])

RECURSIVE DecimalDigits(_)
DecimalDigits(n) ==
    IF n < 10 THEN <<Char0 + n>>
    ELSE DecimalDigits(n \div 10) \o <<Char0 + (n % 10)>>

\* The decimal text of an integer, as a log holds it.
Decimal(n) == IF n < 0 THEN <<CharMinus>> \o DecimalDigits(0 - n)
              ELSE DecimalDigits(n)

\* Logs whose address fields are integers from the whole range of int:
\* a negative one, 0, 1, and the largest whose successor is an int.
WideAddrs == {-1, 0, 1, 2147483646}

WideLines == [inputs : SeqsUpTo({Decimal(a) : a \in WideAddrs}, MaxIn),
              outputs : SeqsUpTo({Decimal(a) : a \in WideAddrs}, MaxOut)]

\* The third token strsep() hands to process_line of the C builders: the
\* outputs with the line's '\n'.  With no output entry it is "\n", which
\* is not the empty string, and strtok_r/strtok yield the one token "\n".
OutputsToken(line) ==
    IF line.outputs = <<>> THEN << <<CharNL>> >> ELSE line.outputs

\* ---------------------------------------------------------- small helpers
RECURSIVE SortedSeq(_)
\* The elements of a finite set of integers, ascending (std::set order).
SortedSeq(S) ==
    IF S = {} THEN <<>>
    ELSE LET m == CHOOSE x \in S : \A y \in S : x <= y
         IN <<m>> \o SortedSeq(S \ {m})

Range(s) == {s[i] : i \in DOMAIN s}

\* Lexicographic order of std::pair<int,int>.
PairLess(p, q) == p[1] < q[1] \/ (p[1] = q[1] /\ p[2] < q[2])

RECURSIVE Insert(_, _)
Insert(s, p) ==
    IF s = <<>> THEN <<p>>
    ELSE IF PairLess(p, Head(s)) THEN <<p>> \o s
    ELSE <<Head(s)>> \o Insert(Tail(s), p)

RECURSIVE SortPairs(_)
\* std::sort of the edge vector.
SortPairs(s) == IF s = <<>> THEN <<>> ELSE Insert(SortPairs(Tail(s)), Head(s))

RECURSIVE SortedSeqOfPairs(_)
\* The pairs of a std::set<pair<int,int>> in its iteration order.
SortedSeqOfPairs(S) ==
    IF S = {} THEN <<>>
    ELSE LET m == CHOOSE x \in S : \A y \in S : x = y \/ PairLess(x, y)
         IN <<m>> \o SortedSeqOfPairs(S \ {m})

\* Mutant of minmax: the pair as given, first the first input.
minmax_AsGiven(a, b) == <<a, b>>

\* std::minmax(a, b)
minmax(a, b) == IF b < a THEN <<b, a>> ELSE <<a, b>>

\* ------------------------------------------------------- builder, v1.0
\* State of builder.cpp: [max_id, edges], edges the vector of pairs.
RECURSIVE InputsLoop_v10_Break(_, _, _)
\* Mutant of InputsLoop_v10: an input equal to the first one ends the loop
\* (break for continue).
InputsLoop_v10_Break(rest, first_address, st) ==
    IF rest = <<>> THEN st
    ELSE LET curr_address == atoi(Head(rest)) IN
         IF curr_address = first_address THEN st
         ELSE InputsLoop_v10_Break(Tail(rest), first_address,
                [max_id |-> IF curr_address >= st.max_id
                            THEN curr_address ELSE st.max_id,
                 edges |-> Append(st.edges,
                                  minmax(first_address, curr_address))])

RECURSIVE InputsLoop_v10_Chain(_, _, _)
\* Mutant of InputsLoop_v10: each input is linked to the input before it
\* (a path) instead of the first one.
InputsLoop_v10_Chain(rest, first_address, st) ==
    IF rest = <<>> THEN st
    ELSE LET curr_address == atoi(Head(rest)) IN
         IF curr_address = first_address
         THEN InputsLoop_v10_Chain(Tail(rest), first_address, st)
         ELSE InputsLoop_v10_Chain(Tail(rest), curr_address,
                [max_id |-> IF curr_address >= st.max_id
                            THEN curr_address ELSE st.max_id,
                 edges |-> Append(st.edges,
                                  minmax(first_address, curr_address))])

RECURSIVE InputsLoop_v10(_, _, _)
InputsLoop_v10(rest, first_address, st) ==
    IF rest = <<>> THEN st
    ELSE LET curr_address == atoi(Head(rest)) IN
         IF curr_address = first_address
         THEN InputsLoop_v10(Tail(rest), first_address, st)
         ELSE InputsLoop_v10(Tail(rest), first_address,
                [max_id |-> IF curr_address >= st.max_id
                            THEN curr_address ELSE st.max_id,
                 edges |-> Append(st.edges,
                                  minmax(first_address, curr_address))])

process_inputs_v10(inputs, st) ==
    LET first_address == atoi(Head(inputs)) IN
    InputsLoop_v10(Tail(inputs), first_address,
        [st EXCEPT !.max_id = IF first_address >= @ THEN first_address ELSE @])

RECURSIVE process_outputs_v10(_, _)
process_outputs_v10(outputs, st) ==
    IF outputs = <<>> THEN st
    ELSE LET address == atoi(Head(outputs)) IN
         process_outputs_v10(Tail(outputs),
            [st EXCEPT !.max_id = IF address >= @ THEN address ELSE @])

\* Mutant of process_line_v10: the outputs are handed to process_inputs
\* together with the inputs, as further entries of the same list.
process_line_v10_OutputsAsInputs(line, st) ==
    process_inputs_v10(line.inputs \o OutputsToken(line), st)

process_line_v10(line, st) ==
    LET afterIn == IF line.inputs # <<>>
                   THEN process_inputs_v10(line.inputs, st) ELSE st
    IN process_outputs_v10(OutputsToken(line), afterIn)

\* ------------------------------------------------------- builder, v0.2
\* State of the v0.2 builder: [nodes, edges, id_count]; nodes the map from
\* address to node id, edges the std::set of ordered pairs.
contains_node(map, address) ==
    IF address \in DOMAIN map THEN map[address] ELSE -1

RECURSIVE PathLoop_v02_NewOnly(_, _, _)
\* Mutant of PathLoop_v02: the edge to the node before is inserted only
\* when the current address has just been given its node.
PathLoop_v02_NewOnly(addrs, prev_id, st) ==
    IF addrs = <<>> THEN st
    ELSE LET curr_addr == Head(addrs)
             found == contains_node(st.nodes, curr_addr)
             curr_id == IF found = -1 THEN st.id_count ELSE found
             st1 == IF found = -1
                    THEN [st EXCEPT !.nodes = @ @@ (curr_addr :> st.id_count),
                                    !.id_count = @ + 1]
                    ELSE st
             st2 == IF prev_id # -1 /\ found = -1
                    THEN [st1 EXCEPT !.edges = @ \cup {<<prev_id, curr_id>>}]
                    ELSE st1
         IN PathLoop_v02_NewOnly(Tail(addrs), curr_id, st2)

RECURSIVE PathLoop_v02(_, _, _)
PathLoop_v02(addrs, prev_id, st) ==
    IF addrs = <<>> THEN st
    ELSE LET curr_addr == Head(addrs)
             found == contains_node(st.nodes, curr_addr)
             curr_id == IF found = -1 THEN st.id_count ELSE found
             st1 == IF found = -1
                    THEN [st EXCEPT !.nodes = @ @@ (curr_addr :> st.id_count),
                                    !.id_count = @ + 1]
                    ELSE st
             st2 == IF prev_id # -1
                    THEN [st1 EXCEPT !.edges = @ \cup {<<prev_id, curr_id>>}]
                    ELSE st1
         IN PathLoop_v02(Tail(addrs), curr_id, st2)

RECURSIVE PathLoop_v02_LeftToRight(_, _, _)
PathLoop_v02_LeftToRight(inputs, prev_id, st) ==
    IF inputs = <<>> THEN st
    ELSE LET curr_addr == atoi(Head(inputs))
             found == contains_node(st.nodes, curr_addr)
             curr_id == IF found = -1 THEN st.id_count ELSE found
             st1 == IF found = -1
                    THEN [st EXCEPT !.nodes = @ @@ (curr_addr :> st.id_count),
                                    !.id_count = @ + 1]
                    ELSE st
             st2 == IF prev_id # -1 /\ prev_id # curr_id
                    THEN [st1 EXCEPT !.edges = @ \cup {<<prev_id, curr_id>>}]
                    ELSE st1
         IN PathLoop_v02_LeftToRight(Tail(inputs), curr_id, st2)

\* Mutant of process_inputs_v02: the path follows the inputs as the line
\* lists them, with no std::set that orders them.
process_inputs_v02_LeftToRight(inputs, st) ==
    PathLoop_v02_LeftToRight(inputs, -1, st)

process_inputs_v02(inputs, st) ==
    LET input_addresses == {atoi(inputs[i]) : i \in DOMAIN inputs}
    IN PathLoop_v02(SortedSeq(input_addresses), -1, st)

RECURSIVE process_outputs_v02(_, _)
process_outputs_v02(outputs, st) ==
    IF outputs = <<>> THEN st
    ELSE LET address == atoi(Head(outputs))
             id == contains_node(st.nodes, address)
         IN process_outputs_v02(Tail(outputs),
              IF id = -1
              THEN [st EXCEPT !.nodes = @ @@ (address :> st.id_count),
                              !.id_count = @ + 1]
              ELSE st)

process_line_v02(line, st) ==
    LET afterIn == IF line.inputs # <<>>
                   THEN process_inputs_v02(line.inputs, st) ELSE st
    IN process_outputs_v02(OutputsToken(line), afterIn)

\* ------------------------------------------------------- builder, v0.1
\* State of the v0.1 builder: [addr_to_id, edges, status]; edges the edges
\* of the LEMON ListGraph in the order addEdge created them.  A std::stoi
\* that throws is not caught: the process is terminated ("aborted") and
\* its memory is gone.
Aborted_v01 == [addr_to_id |-> <<>>, edges |-> <<>>, status |-> "aborted"]

contains(map, key) == IF key \in DOMAIN map THEN map[key] ELSE -1

\* add_edge: findEdge() on the undirected graph finds an edge between the
\* two nodes whichever way round it was added.
add_edge(edges, u_node_id, v_node_id) ==
    IF <<u_node_id, v_node_id>> \in Range(edges)
       \/ <<v_node_id, u_node_id>> \in Range(edges)
    THEN edges
    ELSE Append(edges, <<u_node_id, v_node_id>>)

RECURSIVE PathLoop_v01(_, _, _)
PathLoop_v01(addrs, prev_node_id, st) ==
    IF addrs = <<>> THEN st
    ELSE LET curr_addr == Head(addrs)
             found == contains(st.addr_to_id, curr_addr)
             maxNodeId == Cardinality(DOMAIN st.addr_to_id) - 1
             curr_node_id == IF found = -1 THEN maxNodeId + 1 ELSE found
             st1 == IF found = -1
                    THEN [st EXCEPT !.addr_to_id = @ @@ (curr_addr :> curr_node_id)]
                    ELSE st
             st2 == IF prev_node_id # -1
                    THEN [st1 EXCEPT !.edges = add_edge(@, prev_node_id, curr_node_id)]
                    ELSE st1
         IN PathLoop_v01(Tail(addrs), curr_node_id, st2)

process_inputs_v01(inputs, st) ==
    IF \E i \in DOMAIN inputs : stoi_throws(inputs[i]) THEN Aborted_v01
    ELSE LET input_addresses == {stoi(inputs[i]) : i \in DOMAIN inputs}
         IN PathLoop_v01(SortedSeq(input_addresses), -1, st)

RECURSIVE process_outputs_v01(_, _)
process_outputs_v01(outputs, st) ==
    IF outputs = <<>> THEN st
    ELSE IF stoi_throws(Head(outputs)) THEN Aborted_v01
    ELSE LET addr == stoi(Head(outputs))
             node_id == contains(st.addr_to_id, addr)
             maxNodeId == Cardinality(DOMAIN st.addr_to_id) - 1
         IN process_outputs_v01(Tail(outputs),
              IF node_id = -1
              THEN [st EXCEPT !.addr_to_id = @ @@ (addr :> maxNodeId + 1)]
              ELSE st)

\* The loop body of main: std::getline drops the '\n', split() cuts the
\* line at ':', and an empty list is not processed.
process_line_v01(line, st) ==
    IF st.status = "aborted" THEN st
    ELSE LET afterIn == IF line.inputs # <<>>
                        THEN process_inputs_v01(line.inputs, st) ELSE st
         IN IF afterIn.status = "aborted" THEN afterIn
            ELSE IF line.outputs # <<>>
                 THEN process_outputs_v01(line.outputs, afterIn)
                 ELSE afterIn

\* ------------------------------------------------------------ graph codec
\* A 32-bit signed integer as it lies in memory on the (little-endian)
\* host: least significant byte first.
IntBytes(x) ==
    << x % 256, (x \div 256) % 256, (x \div 65536) % 256,
       (x \div 16777216) % 256 >>

\* The 32-bit signed integer four bytes of memory hold.
BytesInt(b) ==
    b[1] + 256 * b[2] + 65536 * b[3]
    + 16777216 * (IF b[4] >= 128 THEN b[4] - 256 ELSE b[4])

Reverse(s) == [i \in 1..Len(s) |-> s[Len(s) + 1 - i]]

\* __builtin_bswap32
bswap32(x) == BytesInt(Reverse(IntBytes(x)))

\* fwrite(buf, sizeof(int), 2, f) / write((char*) &int_pair, 2*sizeof(int))
PairBytes(a, b) == IntBytes(a) \o IntBytes(b)

\* Writing `bytes` at offset `pos` of a file; a gap left by fseek past the
\* end reads as zero bytes, and a seek with no write leaves the file as is.
WriteAt(file, pos, bytes) ==
    LET n == IF Len(file) > pos + Len(bytes) THEN Len(file) ELSE pos + Len(bytes)
    IN IF bytes = <<>> THEN file
       ELSE [i \in 1..n |->
               IF i > pos /\ i <= pos + Len(bytes) THEN bytes[i - pos]
               ELSE IF i <= Len(file) THEN file[i] ELSE 0]

\* Mutant of Unique: the pass writes every edge, repeats included.
Unique_KeepsRepeats(s) == s

RECURSIVE Unique(_)
\* The pass of main that skips an edge equal to the one before it.
Unique(s) ==
    IF Len(s) <= 1 THEN s
    ELSE IF s[1] = s[2] THEN Unique(Tail(s))
    ELSE <<s[1]>> \o Unique(Tail(s))

RECURSIVE EdgeBytes_NoSwap(_)
\* Mutant of EdgeBytesSwapped: the endpoints are written as they lie in
\* memory, without __builtin_bswap32.
EdgeBytes_NoSwap(es) ==
    IF es = <<>> THEN <<>>
    ELSE IntBytes(Head(es)[1]) \o IntBytes(Head(es)[2])
         \o EdgeBytes_NoSwap(Tail(es))

RECURSIVE EdgeBytesSwapped(_)
EdgeBytesSwapped(es) ==
    IF es = <<>> THEN <<>>
    ELSE PairBytes(bswap32(Head(es)[1]), bswap32(Head(es)[2]))
         \o EdgeBytesSwapped(Tail(es))

RECURSIVE EdgeBytesNative(_)
EdgeBytesNative(es) ==
    IF es = <<>> THEN <<>>
    ELSE PairBytes(Head(es)[1], Head(es)[2]) \o EdgeBytesNative(Tail(es))

\* Mutant of WriteEdges_v10: the pass writes every edge of the sorted
\* vector, while the header counts the edges without repeats.
WriteEdges_v10_KeepsRepeats(file, st) ==
    WriteAt(file, 8, EdgeBytesSwapped(SortPairs(st.edges)))

\* builder.cpp, main: the edges, sorted and without repeats, from offset 8.
WriteEdges_v10(file, st) ==
    WriteAt(file, 8, EdgeBytesSwapped(Unique(SortPairs(st.edges))))

\* Mutant of WriteHeader_v10: num_edges counts every edge of the vector,
\* the skipped repeats too.
WriteHeader_v10_CountsAll(file, st) ==
    WriteAt(file, 0, PairBytes(bswap32(st.max_id + 1), bswap32(Len(st.edges))))

\* Mutant of WriteHeader_v10: the counts are written as they lie in
\* memory, without __builtin_bswap32.
WriteHeader_v10_NoSwap(file, st) ==
    LET num_nodes == st.max_id + 1
        num_edges == Len(Unique(SortPairs(st.edges)))
    IN WriteAt(file, 0, PairBytes(num_nodes, num_edges))

\* builder.cpp, main: the two counts at offset 0.
WriteHeader_v10(file, st) ==
    LET num_nodes == st.max_id + 1
        num_edges == Len(Unique(SortPairs(st.edges)))
    IN WriteAt(file, 0, PairBytes(bswap32(num_nodes), bswap32(num_edges)))

\* v0.2 builder, main: the counts first, then the edges in std::set order.
WriteHeader_v02(file, st) ==
    LET num_nodes == Cardinality(DOMAIN st.nodes)
        num_edges == Cardinality(st.edges)
    IN file \o PairBytes(bswap32(num_nodes), bswap32(num_edges))

WriteEdges_v02(file, st) ==
    file \o EdgeBytesSwapped(SortedSeqOfPairs(st.edges))

\* v0.1 builder, main: counts and edges as they lie in memory.  EdgeIt
\* lists the edges of the ListGraph newest first.
WriteHeader_v01(file, st) ==
    LET num_nodes == Cardinality(DOMAIN st.addr_to_id)
        num_edges == Len(st.edges)
    IN file \o PairBytes(num_nodes, num_edges)

WriteEdges_v01(file, st) ==
    file \o EdgeBytesNative(Reverse(st.edges))

\* -------------------------------------------------------------- analyzers
\* The two integers of the 8 bytes at offset `pos` of a file, as fread /
\* istream::read put them in memory.
IntAt(file, pos) == BytesInt(SubSeq(file, pos + 1, pos + 4))

\* The number of whole 8-byte records after the 8-byte header.
NumRecords(file) == IF Len(file) < 8 THEN 0 ELSE (Len(file) - 8) \div 8

\* The reading loop of analyzer.cpp (v0.2): every whole record until the
\* end of the file, each integer byte-swapped.
ReadEdges_v02(file) ==
    [k \in 1..NumRecords(file) |->
        << bswap32(IntAt(file, 8 * k)), bswap32(IntAt(file, 8 * k + 4)) >>]

\* The reading loop of the v0.1 analyzer: the integers as they are.
ReadEdges_v01(file) ==
    [k \in 1..NumRecords(file) |->
        << IntAt(file, 8 * k), IntAt(file, 8 * k + 4) >>]

\* Mutant of Neighbours: an edge is followed from its first node to its
\* second only.
Neighbours_Directed(S, E) == {e[2] : e \in {x \in E : x[1] \in S}}

\* Nodes one edge away from a node of S.
Neighbours(S, E) ==
    {e[2] : e \in {x \in E : x[1] \in S}} \cup {e[1] : e \in {x \in E : x[2] \in S}}

RECURSIVE Bfs(_, _)
\* What a breadth-first search reaches from the nodes of `visited`.
Bfs(visited, E) ==
    LET more == visited \cup Neighbours(visited, E)
    IN IF more = visited THEN visited ELSE Bfs(more, E)

RECURSIVE Label(_, _, _, _)
\* The component numbering both libraries compute: the nodes are taken in
\* the order `todo`; a node not reached yet starts a search, and all it
\* reaches get the next number.
Label(todo, comp, next, E) ==
    IF todo = <<>> THEN comp
    ELSE IF Head(todo) \in DOMAIN comp THEN Label(Tail(todo), comp, next, E)
    ELSE LET R == Bfs({Head(todo)}, E)
         IN Label(Tail(todo), comp @@ [n \in R |-> next], next + 1, E)

\* igraph_connected_components: the nodes 0, 1, .., N-1 in this order.
igraph_connected_components(num_nodes, E) ==
    Label([i \in 1..num_nodes |-> i - 1], <<>>, 0, E)

\* lemon::connectedComponents: NodeIt order, the newest node (the largest
\* id) first.
connectedComponents(num_nodes, E) ==
    Label([i \in 1..num_nodes |-> num_nodes - i], <<>>, 0, E)

NotRun == [status |-> "not_run", header |-> FALSE, rows |-> <<>>,
           num_nodes |-> 0, edges |-> <<>>, cap |-> 0, filled |-> 0]

\* main of analyzer.cpp (v0.2): one row per node in NodeIt order.
Analyze_v02(file) ==
    LET num_nodes == bswap32(IntAt(file, 0))
        edges == ReadEdges_v02(file)
        comp_map == connectedComponents(num_nodes, Range(edges))
    IN [status |-> "ok", header |-> FALSE,
        rows |-> [i \in 1..num_nodes |->
                    <<num_nodes - i, comp_map[num_nodes - i]>>],
        num_nodes |-> num_nodes, edges |-> edges,
        cap |-> 0, filled |-> 2 * Len(edges)]

\* main of the v0.1 analyzer: the same, with no byte swap.
Analyze_v01(file) ==
    LET num_nodes == IntAt(file, 0)
        edges == ReadEdges_v01(file)
        comp_map == connectedComponents(num_nodes, Range(edges))
    IN [status |-> "ok", header |-> FALSE,
        rows |-> [i \in 1..num_nodes |->
                    <<num_nodes - i, comp_map[num_nodes - i]>>],
        num_nodes |-> num_nodes, edges |-> edges,
        cap |-> 0, filled |-> 2 * Len(edges)]

\* Mutant of read_graph_binary: the node count is always the one of the
\* header, whatever forced_nodes is.
read_graph_binary_HeaderOnly(file, forced_nodes) ==
    LET num_nodes == bswap32(IntAt(file, 0))
        num_edges == bswap32(IntAt(file, 4))
        recs == ReadEdges_v02(file)
    IN [num_nodes |-> num_nodes,
        edges |-> [k \in 1..num_edges |->
                     IF k <= Len(recs) THEN recs[k] ELSE <<0, 0>>],
        cap |-> 2 * num_edges,
        filled |-> 2 * Len(recs)]

\* read_graph_binary of clustering.cpp: the vector `edges` has 2*num_edges
\* entries, all zero at first; every record of the file is stored at the
\* next two indices, with no check against the size of the vector.
\* Returns the node count, the pairs handed to igraph_add_edges, the size
\* of the vector and the index after the last write.
read_graph_binary(file, forced_nodes) ==
    LET num_nodes == IF forced_nodes = 0 THEN bswap32(IntAt(file, 0))
                     ELSE forced_nodes
        num_edges == bswap32(IntAt(file, 4))
        recs == ReadEdges_v02(file)
    IN [num_nodes |-> num_nodes,
        edges |-> [k \in 1..num_edges |->
                     IF k <= Len(recs) THEN recs[k] ELSE <<0, 0>>],
        cap |-> 2 * num_edges,
        filled |-> 2 * Len(recs)]

\* The ways main of clustering.cpp can end on a file.  igraph_empty
\* rejects a negative node count and igraph_add_edges a node id outside
\* [0, N); the default error handler of igraph then aborts the program.  A
\* write past the end of the vector is undefined behaviour: the run may go
\* on as if nothing happened, or crash before a row is written.
Outcomes_v10(file, forced_nodes) ==
    LET g == read_graph_binary(file, forced_nodes)
        rest == IF \E k \in DOMAIN g.edges :
                      \E j \in 1..2 : g.edges[k][j] < 0
                                        \/ g.edges[k][j] >= g.num_nodes
                THEN "error" ELSE "ok"
    IN IF g.num_nodes < 0 THEN {"error"}
       ELSE IF g.filled > g.cap THEN {rest, "crash"}
       ELSE {rest}

\* Mutant of Analyze_v10: the loop over the nodes stops one node early.
Analyze_v10_OneShort(file, forced_nodes, outcome) ==
    LET g == read_graph_binary(file, forced_nodes)
        comp_map == igraph_connected_components(g.num_nodes, Range(g.edges))
    IN [status |-> outcome, header |-> outcome = "ok",
        rows |-> IF outcome = "ok"
                 THEN [i \in 1..(g.num_nodes - 1) |-> <<i - 1, comp_map[i - 1]>>]
                 ELSE <<>>,
        num_nodes |-> g.num_nodes, edges |-> g.edges,
        cap |-> g.cap, filled |-> g.filled]

\* main of clustering.cpp: the header line, then one row per node,
\* i = 0, 1, .., num_nodes - 1.
Analyze_v10(file, forced_nodes, outcome) ==
    LET g == read_graph_binary(file, forced_nodes)
        comp_map == igraph_connected_components(g.num_nodes, Range(g.edges))
    IN IF outcome = "ok"
       THEN [status |-> "ok", header |-> TRUE,
             rows |-> [i \in 1..g.num_nodes |-> <<i - 1, comp_map[i - 1]>>],
             num_nodes |-> g.num_nodes, edges |-> g.edges,
             cap |-> g.cap, filled |-> g.filled]
       ELSE [status |-> outcome, header |-> FALSE, rows |-> <<>>,
             num_nodes |-> g.num_nodes, edges |-> g.edges,
             cap |-> g.cap, filled |-> g.filled]

\* ---------------------------------------------------------------- state
VARIABLES
    pc,         \* where the run is: "read", "body", "closed", "done"
    nlines,     \* lines read so far
    b01,        \* memory of the v0.1 builder
    b02,        \* memory of the v0.2 builder
    b10,        \* memory of the v1.0 builder
    f01,        \* graph file of the v0.1 builder, a sequence of bytes
    f02,        \* graph file of the v0.2 builder
    f10,        \* graph file of the v1.0 builder
    corrupted,  \* whether a graph file was changed after the builder closed it
    r01,        \* outcome and CSV of the v0.1 analyzer on f01
    r02,        \* outcome and CSV of analyzer.cpp (v0.2) on f02
    r10,        \* outcome and CSV of clustering.cpp (v1.0) on f10
    num_addresses,  \* the <num_addresses> argument of a second run of it
    r10f,       \* outcome and CSV of that run on f10
    seen,       \* addresses written in the log so far
    order,      \* the same addresses, in the order they first occur
    txs,        \* per line with inputs: its first input and its input set
    malformed   \* whether an address field of the log was no number

vars == <<pc, nlines, b01, b02, b10, f01, f02, f10, corrupted, r01, r02, r10,
          num_addresses, r10f, seen, order, txs, malformed>>

\* The memory of the builders when main enters its reading loop, and the
\* output files as fopen(.., "wb") / ofstream leave them: empty.
Init ==
    /\ pc = "read"
    /\ nlines = 0
    /\ b01 = [addr_to_id |-> <<>>, edges |-> <<>>, status |-> "running"]
    /\ b02 = [nodes |-> <<>>, edges |-> {}, id_count |-> 0]
    /\ b10 = [max_id |-> 0, edges |-> <<>>]
    /\ f01 = <<>>
    /\ f02 = <<>>
    /\ f10 = <<>>
    /\ corrupted = FALSE
    /\ r01 = NotRun
    /\ r02 = NotRun
    /\ r10 = NotRun
    /\ num_addresses = 0
    /\ r10f = NotRun
    /\ seen = {}
    /\ order = <<>>
    /\ txs = {}
    /\ malformed = FALSE

RECURSIVE FirstSeen(_, _)
\* `acc` followed by the numbers of `toks` not yet in it, in their order.
FirstSeen(toks, acc) ==
    IF toks = <<>> THEN acc
    ELSE IF IsNumber(Head(toks)) /\ atoi(Head(toks)) \notin Range(acc)
         THEN FirstSeen(Tail(toks), Append(acc, atoi(Head(toks))))
         ELSE FirstSeen(Tail(toks), acc)

\* One turn of the reading loop: getline hands the next line of the log to
\* process_line of each builder.
ProcessLine(line) ==
    /\ pc = "read"
    /\ nlines < MaxLines
    /\ nlines' = nlines + 1
    /\ b01' = process_line_v01(line, b01)
    /\ b02' = process_line_v02(line, b02)
    /\ b10' = process_line_v10(line, b10)
    /\ seen' = seen \cup {atoi(t) : t \in {u \in Range(line.inputs)
                                \cup Range(line.outputs) : IsNumber(u)}}
    /\ order' = FirstSeen(line.inputs \o line.outputs, order)
    /\ txs' = IF line.inputs = <<>> THEN txs
              ELSE txs \cup {[first |-> atoi(Head(line.inputs)),
                              addrs |-> {atoi(line.inputs[i]) :
                                          i \in DOMAIN line.inputs}]}
    /\ malformed' = (malformed \/ \E t \in Range(line.inputs)
                                \cup Range(line.outputs) : ~IsNumber(t))
    /\ UNCHANGED <<pc, f01, f02, f10, corrupted, r01, r02, r10,
                   num_addresses, r10f>>

\* End of the log.  First pass of writing: v1.0 sorts its edges and writes
\* them from offset 8; v0.1 and v0.2 write the two counts.
WriteFirst ==
    /\ pc = "read"
    /\ pc' = "body"
    /\ b10' = [b10 EXCEPT !.edges = SortPairs(@)]
    /\ f10' = WriteEdges_v10(f10, b10)
    /\ f02' = WriteHeader_v02(f02, b02)
    /\ f01' = IF b01.status = "aborted" THEN f01 ELSE WriteHeader_v01(f01, b01)
    /\ UNCHANGED <<nlines, b01, b02, corrupted, r01, r02, r10,
                   num_addresses, r10f, seen, order, txs, malformed>>

\* Second pass: v1.0 seeks back and writes the counts; v0.1 and v0.2 write
\* their edges; every builder closes its file and exits.  Before this step
\* the files hold what the first pass wrote: fseek writes the buffered data
\* of the stream to the file, and a run stopped here leaves them so.
WriteSecond ==
    /\ pc = "body"
    /\ pc' = "closed"
    /\ f10' = WriteHeader_v10(f10, b10)
    /\ f02' = WriteEdges_v02(f02, b02)
    /\ f01' = IF b01.status = "aborted" THEN f01 ELSE WriteEdges_v01(f01, b01)
    /\ UNCHANGED <<nlines, b01, b02, b10, corrupted, r01, r02, r10,
                   num_addresses, r10f, seen, order, txs, malformed>>

\* A graph file that lost its last record.
Truncate(file) ==
    IF NumRecords(file) >= 1 THEN SubSeq(file, 1, Len(file) - 8) ELSE file

\* A graph file with its last record written once more.
Extend(file) ==
    IF NumRecords(file) >= 1
    THEN file \o SubSeq(file, Len(file) - 7, Len(file)) ELSE file

\* Between the two programs the graph files lie on disk, where a copy can
\* be cut short or grow: every file that has a record loses its last one.
CorruptTruncate ==
    /\ pc = "closed"
    /\ ~corrupted
    /\ \E f \in {f01, f02, f10} : NumRecords(f) >= 1
    /\ corrupted' = TRUE
    /\ f01' = Truncate(f01)
    /\ f02' = Truncate(f02)
    /\ f10' = Truncate(f10)
    /\ UNCHANGED <<pc, nlines, b01, b02, b10, r01, r02, r10,
                   num_addresses, r10f, seen, order, txs, malformed>>

\* Every file that has a record gets its last record a second time.
CorruptExtend ==
    /\ pc = "closed"
    /\ ~corrupted
    /\ \E f \in {f01, f02, f10} : NumRecords(f) >= 1
    /\ corrupted' = TRUE
    /\ f01' = Extend(f01)
    /\ f02' = Extend(f02)
    /\ f10' = Extend(f10)
    /\ UNCHANGED <<pc, nlines, b01, b02, b10, r01, r02, r10,
                   num_addresses, r10f, seen, order, txs, malformed>>

\* Each analyzer runs on the graph file of the builder of its version.  A
\* builder that was aborted left no graph to analyze.  clustering.cpp runs
\* twice on its file: without the optional argument (forced_nodes is 0),
\* and with an argument <num_addresses>, which atoi converts.
Analyze ==
    /\ pc = "closed"
    /\ pc' = "done"
    /\ r01' = IF b01.status = "aborted" THEN NotRun ELSE Analyze_v01(f01)
    /\ r02' = Analyze_v02(f02)
    /\ \E outcome \in Outcomes_v10(f10, 0) : r10' = Analyze_v10(f10, 0, outcome)
    /\ \E n \in -1..MaxForced :
          /\ num_addresses' = n
          /\ \E outcome \in Outcomes_v10(f10, n) :
                r10f' = Analyze_v10(f10, n, outcome)
    /\ UNCHANGED <<nlines, b01, b02, b10, f01, f02, f10, corrupted,
                   seen, order, txs, malformed>>

Next ==
    \/ \E line \in Lines : ProcessLine(line)
    \/ WriteFirst
    \/ WriteSecond
    \/ CorruptTruncate
    \/ CorruptExtend
    \/ Analyze

Spec == Init /\ [][Next]_vars

\* The builders alone, on logs whose addresses range over the ints.
NextWide ==
    \/ \E line \in WideLines : ProcessLine(line)
    \/ WriteFirst
    \/ WriteSecond

SpecWide == Init /\ [][NextWide]_vars

\* ----------------------------------------------------------------- claims
\* The counts a big-endian header holds (files of the v0.2 and v1.0 builders).
HeaderN(file) == bswap32(IntAt(file, 0))
HeaderM(file) == bswap32(IntAt(file, 4))

\* A builder finished and its file is as it wrote it.
Built == pc \in {"closed", "done"} /\ ~corrupted

\* An edge list without self-loops and without an unordered pair twice.
SimpleEdges(es) ==
    /\ \A k \in DOMAIN es : es[k][1] # es[k][2]
    /\ \A j, k \in DOMAIN es :
          j # k => /\ es[j] # es[k]
                   /\ es[j] # <<es[k][2], es[k][1]>>

\* C1: the address-to-node-id assignment is a bijection from the distinct
\* addresses seen so far onto [0, N), and the node count N of the header is
\* the number of distinct addresses of the log (0 for a log without one).
\* Stated for logs whose address fields are all numbers.
C1_NodesAreTheDistinctAddresses ==
    ~malformed =>
        /\ pc = "read" =>
              /\ DOMAIN b02.nodes = seen
              /\ {b02.nodes[a] : a \in DOMAIN b02.nodes}
                    = 0..(Cardinality(seen) - 1)
        /\ Built =>
              /\ HeaderN(f10) = Cardinality(seen)
              /\ HeaderN(f02) = Cardinality(seen)

\* C2 as written: ids follow the order in which the addresses first occur
\* in the log (inputs left to right, then outputs), from 0.
C2_FirstSeenOrder ==
    (~malformed /\ pc = "read") =>
        \A i, j \in DOMAIN order :
            i < j => /\ order[i] \in DOMAIN b02.nodes
                     /\ order[j] \in DOMAIN b02.nodes
                     /\ b02.nodes[order[i]] < b02.nodes[order[j]]

\* C2, amended: in the v0.2 builder the ids come from a counter that starts
\* at 0, an address keeps the id it was first given, the addresses a line
\* adds get ids above all earlier ones, and within one line the new input
\* addresses get their ids in ascending address order, before the line's
\* new output addresses.
C2_IdsStableAndCounted ==
    /\ b02.id_count = 0 /\ DOMAIN b02.nodes = {}
    /\ [][ LET old == DOMAIN b02.nodes
               new == DOMAIN b02.nodes' \ DOMAIN b02.nodes
           IN /\ \A a \in old : a \in DOMAIN b02.nodes'
                                /\ b02.nodes'[a] = b02.nodes[a]
              /\ b02.id_count' = b02.id_count + Cardinality(new)
              /\ {b02.nodes'[a] : a \in new}
                    = b02.id_count .. (b02.id_count' - 1)
              /\ \A t \in txs' \ txs : \A a, b \in new :
                    /\ (a \in t.addrs /\ b \in t.addrs /\ a < b)
                          => b02.nodes'[a] < b02.nodes'[b]
                    /\ (a \in t.addrs /\ b \notin t.addrs)
                          => b02.nodes'[a] < b02.nodes'[b]
         ]_vars

\* C2, the case: an address that occurs first in the log has a larger id
\* than one that occurs after it, and a second line kept the ids.
C2_Witness ==
    /\ pc = "read"
    /\ ~malformed
    /\ nlines = 2
    /\ Cardinality(DOMAIN b02.nodes) = 3
    /\ \E i, j \in DOMAIN order :
          /\ i < j
          /\ b02.nodes[order[i]] > b02.nodes[order[j]]

\* C3: the edge list of every graph file a builder wrote has no self-loop
\* and no unordered pair {u,v} twice, in either orientation.
C3_NoLoopNoDuplicate ==
    Built =>
        /\ SimpleEdges(ReadEdges_v02(f10))
        /\ SimpleEdges(ReadEdges_v02(f02))
        /\ b01.status # "aborted" => SimpleEdges(ReadEdges_v01(f01))

\* C3, the case: the v1.0 builder collected the same pair more than once
\* (a repeat within a line or across lines) and wrote it once.
C3_Witness ==
    /\ Built
    /\ NumRecords(f10) >= 1
    /\ Len(b10.edges) >= NumRecords(f10) + 2
    /\ Cardinality(txs) = 2

\* C4: a graph file a builder wrote is 8 + 8*M bytes long, M the edge count
\* of its header, which is the number of edges the builder held.
C4_FileSize ==
    Built =>
        /\ Len(f10) = 8 + 8 * HeaderM(f10)
        /\ HeaderM(f10) = Cardinality(Range(b10.edges))
        /\ Len(f02) = 8 + 8 * HeaderM(f02)
        /\ HeaderM(f02) = Cardinality(b02.edges)
        /\ b01.status # "aborted" =>
              /\ Len(f01) = 8 + 8 * IntAt(f01, 4)
              /\ IntAt(f01, 4) = Len(b01.edges)

\* C4, the cases: a file with no edge (8 bytes) is covered by the empty
\* log; here a file with two edges, one of them collected twice.
C4_Witness ==
    /\ Built
    /\ HeaderM(f10) = 2
    /\ Len(f10) = 24
    /\ Len(b10.edges) = 3

\* The component id the rows of a CSV give a node.
CompOf(r, n) ==
    LET i == CHOOSE k \in DOMAIN r.rows : r.rows[k][1] = n IN r.rows[i][2]

HasRow(r, n) == \E k \in DOMAIN r.rows : r.rows[k][1] = n

\* C5: the input addresses of one transaction carry the same component id
\* after builder and analyzer (v1.0: the node of an address is the address;
\* v0.2, v0.1: the node the builder gave it).
C5_InputsShareComponent ==
    (pc = "done" /\ ~corrupted) =>
        /\ r10.status = "ok"
        /\ \A t \in txs : \A a, b \in t.addrs :
              /\ HasRow(r10, a) /\ HasRow(r10, b)
              /\ CompOf(r10, a) = CompOf(r10, b)
        /\ r02.status = "ok"
        /\ \A t \in txs : \A a, b \in t.addrs :
              /\ HasRow(r02, b02.nodes[a]) /\ HasRow(r02, b02.nodes[b])
              /\ CompOf(r02, b02.nodes[a]) = CompOf(r02, b02.nodes[b])
        /\ b01.status # "aborted" =>
              \A t \in txs : \A a, b \in t.addrs :
                  CompOf(r01, b01.addr_to_id[a]) = CompOf(r01, b01.addr_to_id[b])

\* C5, the case: a transaction with three distinct inputs, and another
\* with two, analyzed.
C5_Witness ==
    /\ pc = "done" /\ ~corrupted /\ ~malformed
    /\ r10.status = "ok"
    /\ \E t \in txs : Cardinality(t.addrs) = 3
    /\ \E t \in txs : Cardinality(t.addrs) = 2

RECURSIVE Closure(_, _)
\* The transitive closure of a relation R on the nodes V.
Closure(R, V) ==
    LET R2 == R \cup {p \in V \X V :
                        \E m \in V : <<p[1], m>> \in R /\ <<m, p[2]>> \in R}
    IN IF R2 = R THEN R ELSE Closure(R2, V)

\* Whether u and v are joined by a path of edges of E (or are the same).
Connected(u, v, E, V) ==
    <<u, v>> \in Closure({<<a, a>> : a \in V} \cup E
                          \cup {<<e[2], e[1]>> : e \in E}, V)

\* An analyzer's rows give every node of [0, N) a component id, equal for
\* two nodes exactly when a path of the edges it read joins them.
ComponentsAreReachability(r) ==
    LET V == 0..(r.num_nodes - 1) IN
    /\ \A n \in V : HasRow(r, n)
    /\ \A u, v \in V :
          (CompOf(r, u) = CompOf(r, v)) <=> Connected(u, v, Range(r.edges), V)

\* C6: for every analyzer that ends normally, same component id iff
\* connected by a path.
C6_ComponentsIffConnected ==
    pc = "done" =>
        /\ r10.status = "ok" => ComponentsAreReachability(r10)
        /\ r02.status = "ok" => ComponentsAreReachability(r02)
        /\ r01.status = "ok" => ComponentsAreReachability(r01)

\* C6, the case: three nodes, two edges that join them through the middle
\* one only, so that the end nodes are connected by a path of length two.
C6_Witness ==
    /\ pc = "done" /\ ~corrupted
    /\ r10.status = "ok" /\ r10.num_nodes = 3
    /\ Range(r10.edges) = {<<0, 2>>, <<1, 2>>}
    /\ CompOf(r10, 0) = CompOf(r10, 1)

\* C7 as written: every analyzer's rows are the node ids 0, 1, .., N-1 in
\* this order, N the node count of the graph file.
C7_RowsAscending ==
    (pc = "done" /\ ~corrupted) =>
        /\ r10.status = "ok" /\ Len(r10.rows) = HeaderN(f10)
        /\ \A i \in DOMAIN r10.rows : r10.rows[i][1] = i - 1
        /\ r02.status = "ok" /\ Len(r02.rows) = HeaderN(f02)
        /\ \A i \in DOMAIN r02.rows : r02.rows[i][1] = i - 1
        /\ r01.status = "ok" =>
              /\ Len(r01.rows) = IntAt(f01, 0)
              /\ \A i \in DOMAIN r01.rows : r01.rows[i][1] = i - 1

\* C7, amended: one row per node, the node ids of the rows covering [0, N)
\* once each; ascending in clustering.cpp (v1.0), descending in the
\* LEMON analyzers (v0.1, v0.2).
C7_RowsCoverNodes ==
    (pc = "done" /\ ~corrupted) =>
        /\ r10.status = "ok" /\ Len(r10.rows) = HeaderN(f10)
        /\ \A i \in DOMAIN r10.rows : r10.rows[i][1] = i - 1
        /\ r02.status = "ok" /\ Len(r02.rows) = HeaderN(f02)
        /\ \A i \in DOMAIN r02.rows : r02.rows[i][1] = HeaderN(f02) - i
        /\ r01.status = "ok" =>
              /\ Len(r01.rows) = IntAt(f01, 0)
              /\ \A i \in DOMAIN r01.rows : r01.rows[i][1] = IntAt(f01, 0) - i

\* C7, the case: graphs of three nodes analyzed by all three analyzers.
C7_Witness ==
    /\ pc = "done" /\ ~corrupted
    /\ Len(r10.rows) = 3 /\ Len(r02.rows) = 3 /\ Len(r01.rows) = 3

\* C8: read_graph_binary decodes from the file of the v1.0 builder the node
\* count, the edge count and the edges the builder held when it wrote it.
C8_RoundTrip ==
    Built =>
        LET g == read_graph_binary(f10, 0)
            written == Unique(SortPairs(b10.edges))
        IN /\ g.num_nodes = b10.max_id + 1
           /\ g.cap = 2 * Len(written)
           /\ g.filled = 2 * Len(written)
           /\ g.edges = written

\* C8, the case: a file with two edges whose endpoints are not all zero.
C8_Witness ==
    /\ Built
    /\ b10.max_id = 2
    /\ Unique(SortPairs(b10.edges)) = <<<<0, 2>>, <<1, 2>>>>

\* C9: an analyzer that reads a file whose edge count differs from the
\* number of records ends with an error and writes no row.
C9_MismatchIsAnError ==
    pc = "done" =>
        /\ HeaderM(f10) # NumRecords(f10) =>
              r10.status # "ok" /\ r10.rows = <<>>
        /\ HeaderM(f02) # NumRecords(f02) =>
              r02.status # "ok" /\ r02.rows = <<>>

\* C10: after a log with an address field that is no number the builders
\* were aborted and left no graph file that can be read.
C10_MalformedAborts ==
    (malformed /\ pc \in {"closed", "done"}) =>
        /\ b01.status = "aborted" /\ Len(f01) < 8
        /\ Len(f02) < 8
        /\ Len(f10) < 8

\* C11: while a builder runs and after it ended, a graph file that holds
\* edge records has a header that matches them: M is the number of records
\* and N the node count the builder holds.
C11_HeaderMatchesBody ==
    ~corrupted =>
        /\ NumRecords(f10) >= 1 =>
              /\ HeaderM(f10) = NumRecords(f10)
              /\ HeaderN(f10) = b10.max_id + 1
        /\ NumRecords(f02) >= 1 =>
              /\ HeaderM(f02) = NumRecords(f02)
              /\ HeaderN(f02) = Cardinality(DOMAIN b02.nodes)

\* The addresses the builders read as an input of some record, and the
\* addresses of the log that no record has as an input.
InputAddrs == UNION {t.addrs : t \in txs}
OutputOnly == seen \ InputAddrs

\* No node other than n has the component id of n.
Alone(r, n) ==
    /\ HasRow(r, n)
    /\ \A m \in 0..(r.num_nodes - 1) : m # n => CompOf(r, m) # CompOf(r, n)

\* C12: every edge a builder holds joins two inputs of one record (the
\* outputs add or change none), and an address that occurs in output lists
\* only has a node id in [0, N) and, after builder and analyzer, a component
\* of its own.
C12_OutputOnlyIsolated ==
    /\ \A e \in Range(b10.edges) : \E t \in txs : {e[1], e[2]} \subseteq t.addrs
    /\ \A e \in b02.edges : \E t \in txs : \E a, b \in t.addrs :
          e = <<b02.nodes[a], b02.nodes[b]>>
    /\ \A e \in Range(b01.edges) : \E t \in txs : \E a, b \in t.addrs :
          e = <<b01.addr_to_id[a], b01.addr_to_id[b]>>
    /\ (pc = "done" /\ ~corrupted) =>
          \A a \in OutputOnly :
              /\ a \in 0..(HeaderN(f10) - 1)
              /\ r10.status = "ok" /\ Alone(r10, a)
              /\ a \in DOMAIN b02.nodes
              /\ b02.nodes[a] \in 0..(HeaderN(f02) - 1)
              /\ r02.status = "ok" /\ Alone(r02, b02.nodes[a])
              /\ r01.status = "ok" =>
                    /\ a \in DOMAIN b01.addr_to_id
                    /\ b01.addr_to_id[a] \in 0..(IntAt(f01, 0) - 1)
                    /\ Alone(r01, b01.addr_to_id[a])

\* C12, the case: a record with two inputs and an output that is no input
\* of any record, analyzed; the output's address is not the largest node.
C12_Witness ==
    /\ pc = "done" /\ ~corrupted /\ ~malformed
    /\ \E a \in OutputOnly : a < b10.max_id /\ Alone(r10, a)
    /\ \E t \in txs : Cardinality(t.addrs) = 2
    /\ r10.num_nodes = 3 /\ Len(r10.edges) = 1

\* The four bytes at offset `pos` of a file are the integer x, least
\* significant byte first.
LittleEndianAt(file, pos, x) ==
    /\ Len(file) >= pos + 4
    /\ SubSeq(file, pos + 1, pos + 4)
          = <<x % 256, (x \div 256) % 256, (x \div 65536) % 256,
              (x \div 16777216) % 256>>

\* The four bytes at offset `pos` of a file are the integer x, most
\* significant byte first.
BigEndianAt(file, pos, x) ==
    /\ Len(file) >= pos + 4
    /\ SubSeq(file, pos + 1, pos + 4)
          = <<(x \div 16777216) % 256, (x \div 65536) % 256,
              (x \div 256) % 256, x % 256>>

Star(t) == {minmax(t.first, a) : a \in t.addrs \ {t.first}}

\* C14: the edges the v1.0 builder holds are exactly the stars of the
\* records read, and the edges one line adds are exactly the star of that
\* line's record (none for a line without inputs).
C14_StarEdges ==
    /\ [](Range(b10.edges) = UNION {Star(t) : t \in txs})
    /\ [][ nlines' = nlines + 1 =>
             LET new == {b10'.edges[k] :
                            k \in (Len(b10.edges) + 1)..Len(b10'.edges)}
             IN /\ SubSeq(b10'.edges, 1, Len(b10.edges)) = b10.edges
                /\ IF txs' # txs
                   THEN \A t \in txs' \ txs : new = Star(t)
                   ELSE new = {} \/ \E t \in txs : new = Star(t)
         ]_vars

\* C14, the case: a record of three distinct inputs whose first input is
\* neither the smallest nor the largest; the two other inputs are not joined.
C14_Witness ==
    /\ pc = "read" /\ ~malformed
    /\ txs = {[first |-> 1, addrs |-> {0, 1, 2}]}
    /\ Range(b10.edges) = {<<0, 1>>, <<1, 2>>}
    /\ <<0, 2>> \notin Range(b10.edges)

\* C15: after builder and analyzer, two addresses of the v0.2 index carry
\* the same component id in the CSV of the v0.2 (path) pipeline exactly when
\* they do in the CSV of the v1.0 (star) pipeline.
C15_SamePartition ==
    (pc = "done" /\ ~corrupted) =>
        /\ r10.status = "ok" /\ r02.status = "ok"
        /\ \A a, b \in DOMAIN b02.nodes :
              /\ HasRow(r10, a) /\ HasRow(r10, b)
              /\ HasRow(r02, b02.nodes[a]) /\ HasRow(r02, b02.nodes[b])
              /\ (CompOf(r10, a) = CompOf(r10, b))
                    <=> (CompOf(r02, b02.nodes[a]) = CompOf(r02, b02.nodes[b]))

\* C15, the case: the two graph files differ in their edge count (three
\* star edges, two path edges) and the analyzers give the same partition.
C15_Witness ==
    /\ pc = "done" /\ ~corrupted /\ ~malformed
    /\ HeaderM(f10) = 3 /\ HeaderM(f02) = 2
    /\ CompOf(r10, 0) = CompOf(r10, 2)
    /\ CompOf(r02, b02.nodes[0]) = CompOf(r02, b02.nodes[2])

\* What the inputs of a line alone give: process_line without the call of
\* process_outputs.
InputsOnly_v02(line, st) ==
    IF line.inputs # <<>> THEN process_inputs_v02(line.inputs, st) ELSE st

InputsOnly_v10(line, st) ==
    IF line.inputs # <<>> THEN process_inputs_v10(line.inputs, st) ELSE st

\* C16: when the builders process a line with no output, the address index,
\* the node count and the edges are afterwards as the inputs of the line
\* alone determine them.
C16_EmptyOutputsAddNothing ==
    [][ (pc = "read" /\ nlines' = nlines + 1) =>
          \A line \in {l \in Lines : l.outputs = <<>>} :
              (b02' = process_line_v02(line, b02)
               /\ b10' = process_line_v10(line, b10))
              => /\ b02' = InputsOnly_v02(line, b02)
                 /\ b10' = InputsOnly_v10(line, b10)
      ]_vars

\* C19 as written: in every record of a graph file a builder wrote the
\* first integer is smaller than the second.
C19_MinMax ==
    Built =>
        /\ \A k \in 1..NumRecords(f10) :
              ReadEdges_v02(f10)[k][1] < ReadEdges_v02(f10)[k][2]
        /\ \A k \in 1..NumRecords(f02) :
              ReadEdges_v02(f02)[k][1] < ReadEdges_v02(f02)[k][2]

\* The address the v0.2 index maps to a node id.
AddressOf(id) == CHOOSE a \in DOMAIN b02.nodes : b02.nodes[a] = id

\* C19, amended: the v1.0 builder writes every edge as (min, max); the
\* v0.2 builder writes the node of the smaller address first, and the two
\* node ids differ.
C19_MinMaxOfAddresses ==
    Built =>
        /\ \A k \in 1..NumRecords(f10) :
              ReadEdges_v02(f10)[k][1] < ReadEdges_v02(f10)[k][2]
        /\ \A k \in 1..NumRecords(f02) :
              LET e == ReadEdges_v02(f02)[k] IN
              /\ e[1] # e[2]
              /\ {e[1], e[2]} \subseteq {b02.nodes[a] : a \in DOMAIN b02.nodes}
              /\ AddressOf(e[1]) < AddressOf(e[2])

\* C19, the case: the v1.0 file holds an edge whose first input was the
\* larger address, and the v0.2 file an edge whose first id is the larger.
C19_Witness ==
    /\ Built /\ ~malformed
    /\ \E t \in txs : \E a \in t.addrs : a < t.first
    /\ NumRecords(f10) >= 1
    /\ \E k \in 1..NumRecords(f02) :
          ReadEdges_v02(f02)[k][1] > ReadEdges_v02(f02)[k][2]

\* C20: when clustering.cpp has read a file the v1.0 builder wrote, the
\* edge vector has 2*M entries, M the edge count of the header, the writes
\* went to the indices 0 .. 2*M - 1 and to no other, and M edges were
\* handed to the graph.
C20_VectorFilledExactly ==
    (pc = "done" /\ ~corrupted) =>
        /\ r10.cap = 2 * HeaderM(f10)
        /\ r10.filled <= r10.cap
        /\ r10.filled = 2 * HeaderM(f10)
        /\ Len(r10.edges) = HeaderM(f10)
        /\ r10.status # "crash"

\* C20, the case: a file of two records, read after the builder skipped a
\* repeated edge.
C20_Witness ==
    /\ pc = "done" /\ ~corrupted
    /\ HeaderM(f10) = 2
    /\ r10.filled = 4
    /\ Len(b10.edges) = 3

\* The rows of a CSV are one row per node of 0 .. n - 1.
OneRowPerNode(r, n) ==
    /\ Len(r.rows) = n
    /\ {r.rows[i][1] : i \in DOMAIN r.rows} = 0..(n - 1)

\* C18 as written: without the argument, or with 0, the graph has the N of
\* the header; with another value it has that many nodes and the CSV holds
\* one row per node of that count.
C18_ForcedNodeCount ==
    (pc = "done" /\ ~corrupted) =>
        /\ r10.num_nodes = HeaderN(f10)
        /\ OneRowPerNode(r10, HeaderN(f10))
        /\ num_addresses = 0 =>
              /\ r10f.num_nodes = HeaderN(f10)
              /\ OneRowPerNode(r10f, HeaderN(f10))
        /\ num_addresses # 0 =>
              /\ r10f.num_nodes = num_addresses
              /\ OneRowPerNode(r10f, num_addresses)

\* Every node id of the records of a file is in 0 .. n - 1.
EndpointsBelow(file, n) ==
    \A k \in 1..NumRecords(file) :
        \A j \in 1..2 : ReadEdges_v02(file)[k][j] \in 0..(n - 1)

\* C18, amended: as above, but the run with a count writes its rows only
\* when the count is not negative and every node id of the file is below
\* it; otherwise igraph rejects the graph, the program is aborted and the
\* CSV has no row.
C18_ForcedNodeCountOrAbort ==
    (pc = "done" /\ ~corrupted) =>
        /\ r10.num_nodes = HeaderN(f10)
        /\ OneRowPerNode(r10, HeaderN(f10))
        /\ num_addresses = 0 =>
              /\ r10f.num_nodes = HeaderN(f10)
              /\ OneRowPerNode(r10f, HeaderN(f10))
        /\ num_addresses # 0 =>
              /\ r10f.num_nodes = num_addresses
              /\ IF num_addresses > 0 /\ EndpointsBelow(f10, num_addresses)
                 THEN r10f.status = "ok" /\ OneRowPerNode(r10f, num_addresses)
                 ELSE r10f.status = "error" /\ r10f.rows = <<>>

\* C18, the case: a file with an edge read with a count larger than the N
\* of its header, which gives more rows than the header has nodes.
C18_Witness ==
    /\ pc = "done" /\ ~corrupted
    /\ NumRecords(f10) >= 1
    /\ num_addresses > HeaderN(f10)
    /\ r10f.status = "ok"
    /\ Len(r10f.rows) = num_addresses

\* C17: in every graph file a builder wrote, both node ids of every record
\* are in [0, N), N the node count of the file's header.
C17_EndpointsBelowN ==
    Built =>
        /\ EndpointsBelow(f10, HeaderN(f10))
        /\ EndpointsBelow(f02, HeaderN(f02))

====
